---- MODULE Spec2Model ----
(***************************************************************************)
(* Model of the knowledge-base maintenance scripts of vivy-yi/mobius:      *)
(*   standardize_article_ids.py   (the Renamer)                            *)
(*   generate_missing_articles.py (the Generator)                          *)
(*   convert_to_markdown_html.py  (the Converter)                          *)
(*                                                                         *)
(* The two resources the scripts share are the data file                   *)
(* data/articles.json (json_file) and the directory knowledge/ of          *)
(* per-article HTML files (knowledge_dir, files).  Text is modelled as a   *)
(* sequence of tokens, each token a sequence of strings, so that prefix    *)
(* tests, splitting and textual replacement are computed, not assumed.     *)
(* A url is the sequence of its segments between "/", each segment the     *)
(* sequence of its pieces, a file name being its stem and its extension:   *)
(* "knowledge/a/b.html" is << <<"knowledge">>, <<"a">>, <<"b", ".html">> >> *)
(* and "knowledge/" is << <<"knowledge">>, <<>> >>.  An id holds no "/".   *)
(***************************************************************************)
EXTENDS Integers, Sequences, FiniteSets, TLC

VARIABLES
  json_file,        \* the JSON value data/articles.json holds (json.load and
                    \* json.dump keep its keys, their order and its lists)
  knowledge_dir,    \* whether the directory knowledge/ exists
  files,            \* knowledge/<stem>.html |-> content, for the files that exist
  data,             \* the structure the running script holds in memory
  pc,               \* position of the running script
  run,              \* 1 for the first run of the script, 2 for a re-run
  out,              \* what the script printed (abstracted to tagged tuples)
  issues,           \* verify_integrity's list of issues
  success,          \* verify_integrity's return value
  entry,            \* Renamer: index of the mapping entry the rename loop is at
  renamed_count,    \* Renamer: rename_html_files' counter
  existing_files,   \* Generator/Converter: the listing of knowledge/*.html
  missing_articles, \* Generator: the records without a file
  orig,             \* history: the disk state before the first run
  first,            \* history: the disk state and issues after the first run
  interrupted       \* history: "no", or the position the first run was interrupted at

vars == <<json_file, knowledge_dir, files, data, pc, run, out, issues, success,
          entry, renamed_count, existing_files, missing_articles, orig, first,
          interrupted>>

(***************************************************************************)
(* Bounds of the model.                                                    *)
(***************************************************************************)
\* Largest number of article records in the data file (all categories).
MaxArticles == 2
\* Largest number of article records in the data file of the crash runs.
MaxCrashArticles == 1

(***************************************************************************)
(* Generic helpers.                                                        *)
(***************************************************************************)
Range(s) == {s[k] : k \in DOMAIN s}

RECURSIVE Concat(_)
Concat(ss) == IF ss = <<>> THEN <<>> ELSE Head(ss) \o Concat(Tail(ss))

SeqsUpTo(S, n) == UNION {[1..k -> S] : k \in 0..n}

(***************************************************************************)
(* standardize_article_ids.py                                              *)
(***************************************************************************)
\* A table with a chain: the new id of one entry is the old id of another.
create_id_mapping_chained ==
  << <<"japan-visa-guide-2024", "visa-article-management-guide">>,
     <<"visa-article-management-guide", "visa-article-management-guide-2025">> >>

\* The old-id -> new-id table, in the dict's insertion order.
create_id_mapping ==
  << <<"japan-company-registration-2024", "business-article-company-registration">>,
     <<"japan-business-setup-guide", "business-article-setup-guide">>,
     <<"business-faq-001", "business-faq-restaurant">>,
     <<"business-faq-002", "business-faq-beauty-salon">>,
     <<"japan-visa-guide-2024", "visa-article-management-guide">>,
     <<"japan-high-talent-visa", "visa-article-talent-points">>,
     <<"visa-faq-001", "visa-faq-renewal">>,
     <<"japan-tax-guide-2024", "tax-article-declaration-guide">>,
     <<"japan-consumption-tax", "tax-article-consumption-tax">>,
     <<"tax-faq-001", "tax-faq-registration">>,
     <<"tax-faq-002", "tax-faq-subsidy-application">>,
     <<"japan-it-subsidy-2024", "subsidy-article-it-digital">>,
     <<"japan-green-subsidy", "subsidy-article-green-environmental">>,
     <<"subsidy-faq-001", "subsidy-faq-success-tips">>,
     <<"japan-labor-law-guide-2024", "legal-article-labor-law">>,
     <<"japan-personal-data-protection", "legal-article-data-protection">>,
     <<"legal-faq-001", "legal-faq-contract">>,
     <<"legal-faq-002", "legal-faq-ip-protection">>,
     <<"japan-banking-guide", "life-article-banking">>,
     <<"japan-housing-guide", "life-article-housing">>,
     <<"life-faq-001", "life-faq-banking-account">> >>

id_mapping == create_id_mapping

\* old_id in id_mapping
InMapping(old_id) == \E k \in DOMAIN id_mapping : id_mapping[k][1] = old_id

\* id_mapping[old_id]
MappingAt(old_id) ==
  id_mapping[CHOOSE k \in DOMAIN id_mapping : id_mapping[k][1] = old_id][2]

\* Text pieces the scripts build paths and attributes from.
\* 'knowledge/' and '../services/': the segments before the last "/".
KnowledgePrefix == << <<"knowledge">> >>
ServicesPrefix == << <<"..">>, <<"services">> >>
HtmlSuffix == ".html"

\* f"knowledge/{new_id}.html"
KnowledgeUrl(id) == KnowledgePrefix \o << <<id, HtmlSuffix>> >>

\* url.startswith(prefix)
StartsWith(url, prefix) ==
  Len(url) > Len(prefix) /\ SubSeq(url, 1, Len(prefix)) = prefix

\* The text of a url, as the messages print it.
RECURSIVE UrlText(_)
UrlText(url) ==
  IF Len(url) = 0 THEN <<>>
  ELSE IF Len(url) = 1 THEN url[1]
  ELSE url[1] \o <<"/">> \o UrlText(Tail(url))

\* f'data-id="{id}"'
DataIdAttr(id) == <<"data-id=", id>>

\* update_article with the services branch forgotten: every url is rewritten.
update_article_any_url(article) ==
  IF InMapping(article.id)
  THEN LET new_id == MappingAt(article.id)
           renamed == [article EXCEPT !.id = new_id]
       IN IF "url" \in DOMAIN article
          THEN [renamed EXCEPT !.url = KnowledgeUrl(new_id)]
          ELSE renamed
  ELSE article

\* The body of the loop over a category's articles (lines 58-71).
update_article(article) ==
  IF InMapping(article.id)
  THEN LET new_id == MappingAt(article.id)
           renamed == [article EXCEPT !.id = new_id]
       IN IF "url" \in DOMAIN article /\ StartsWith(article.url, KnowledgePrefix)
          THEN [renamed EXCEPT !.url = KnowledgeUrl(new_id)]
          ELSE renamed
  ELSE article

\* The body of the loop over metadata.hotContent (lines 76-78).
update_hot_item(hot_item) ==
  IF InMapping(hot_item.id)
  THEN [hot_item EXCEPT !.id = MappingAt(hot_item.id)]
  ELSE hot_item

\* update_articles_ids rebuilding each list by prepending: the order is reversed.
update_articles_ids_prepending(d) ==
  LET cats == [c \in DOMAIN d.categories |->
                 [d.categories[c] EXCEPT
                    !.articles = [k \in DOMAIN d.categories[c].articles |->
                                    update_article(d.categories[c].articles[
                                      Len(d.categories[c].articles) + 1 - k])]]]
      meta == IF "hotContent" \in DOMAIN d.metadata
              THEN [d.metadata EXCEPT
                      !.hotContent = [k \in DOMAIN d.metadata.hotContent |->
                                        update_hot_item(d.metadata.hotContent[k])]]
              ELSE d.metadata
  IN [d EXCEPT !.categories = cats, !.metadata = meta]

update_articles_ids(d) ==
  LET cats == [c \in DOMAIN d.categories |->
                 [d.categories[c] EXCEPT
                    !.articles = [k \in DOMAIN d.categories[c].articles |->
                                    update_article(d.categories[c].articles[k])]]]
      meta == IF "hotContent" \in DOMAIN d.metadata
              THEN [d.metadata EXCEPT
                      !.hotContent = [k \in DOMAIN d.metadata.hotContent |->
                                        update_hot_item(d.metadata.hotContent[k])]]
              ELSE d.metadata
  IN [d EXCEPT !.categories = cats, !.metadata = meta]

\* content.replace(f'data-id="{old_id}"', f'data-id="{new_id}"')
ReplaceDataId(content, old_id, new_id) ==
  [k \in DOMAIN content |->
     IF content[k] = DataIdAttr(old_id) THEN DataIdAttr(new_id) ELSE content[k]]

\* Line 104: open(new_file, 'w') creates the new file or empties it.
OpenNewFile(fs, new_id) ==
  [s \in DOMAIN fs \cup {new_id} |-> IF s = new_id THEN <<>> ELSE fs[s]]

\* Lines 97-105: read the old file, patch it, write the new file.
WriteNewFile(fs, old_id, new_id) ==
  LET content == ReplaceDataId(fs[old_id], old_id, new_id)
  IN [s \in DOMAIN fs \cup {new_id} |-> IF s = new_id THEN content ELSE fs[s]]

\* os.remove forgotten: the old file stays.
RemoveOldFile_forgotten(fs, old_id) == fs

\* Line 108: os.remove(old_file)
RemoveOldFile(fs, old_id) == [s \in DOMAIN fs \ {old_id} |-> fs[s]]

\* One iteration of the loop of rename_html_files (lines 91-113) on the
\* state st = [files, out, renamed_count].
rename_entry(st, old_id, new_id) ==
  IF old_id \in DOMAIN st.files
  THEN [files |-> RemoveOldFile(WriteNewFile(st.files, old_id, new_id), old_id),
        out |-> Append(st.out, <<"renamed", old_id, new_id>>),
        renamed_count |-> st.renamed_count + 1]
  ELSE [st EXCEPT !.out = Append(@, <<"file missing", old_id>>)]

RECURSIVE rename_loop(_, _)
rename_loop(st, k) ==
  IF k > Len(id_mapping) THEN st
  ELSE rename_loop(rename_entry(st, id_mapping[k][1], id_mapping[k][2]), k + 1)

\* rename_html_files as a function of the directory: the files and the
\* output it leaves.
rename_html_files(dir, fs) ==
  IF ~dir
  THEN [files |-> fs, out |-> << <<"no directory">> >>, renamed_count |-> 0]
  ELSE LET st == rename_loop([files |-> fs, out |-> <<>>, renamed_count |-> 0], 1)
       IN [st EXCEPT !.out = Append(@, <<"renamed total", ToString(st.renamed_count)>>)]

\* The directory the script is run in, from the root of the file system:
\* /srv/site.
SiteRootPath == <<"srv", "site">>

\* The directories above the site root, the nearest first: /srv and /.
Ancestors == <<"/srv", "/">>

\* The place of the ancestor k, counted from the site root.
Level(at) == CHOOSE k \in DOMAIN Ancestors : Ancestors[k] = at

\* ".." from a place: the parent, and the root of the file system is its own.
Parent(at) ==
  IF at \in {"knowledge", "data"} THEN "cwd"
  ELSE IF at = "cwd" THEN Ancestors[1]
  ELSE IF Level(at) < Len(Ancestors) THEN Ancestors[Level(at) + 1]
  ELSE at

\* A name under an ancestor of the site root: only the way down to the site
\* root is there.
StepDown(at, segment) ==
  IF segment # <<SiteRootPath[Len(SiteRootPath) - Level(at) + 1]>> THEN "none"
  ELSE IF Level(at) = 1 THEN "cwd"
  ELSE Ancestors[Level(at) - 1]

\* Where one segment of a relative path leads from the place at: the site
\* root ("cwd") holds data/articles.json and, when it exists, knowledge/
\* with its files and nothing else; a file has nothing below it.
StepInto(dir, fs, at, segment) ==
  CASE at \in {"none", "file"} -> "none"
    [] segment \in {<<>>, <<".">>} -> at
    [] segment = <<"..">> -> Parent(at)
    [] at \in Range(Ancestors) -> StepDown(at, segment)
    [] at = "cwd" /\ segment = <<"knowledge">> -> IF dir THEN "knowledge" ELSE "none"
    [] at = "cwd" /\ segment = <<"data">> -> "data"
    [] at = "knowledge" /\ Len(segment) = 2 /\ segment[2] = HtmlSuffix ->
         IF segment[1] \in DOMAIN fs THEN "file" ELSE "none"
    [] at = "data" /\ segment = <<"articles", ".json">> -> "file"
    [] OTHER -> "none"

RECURSIVE Resolve(_, _, _, _)
Resolve(dir, fs, at, path) ==
  IF path = <<>> THEN at
  ELSE Resolve(dir, fs, StepInto(dir, fs, at, Head(path)), Tail(path))

\* os.path.exists(url) for a relative url, from the site root: any path
\* that resolves, a directory as well as a file.
PathExists(dir, fs, url) == Resolve(dir, fs, "cwd", url) # "none"

\* url.split('/')[-1]
LastSegment(url) == url[Len(url)]

\* article_issues with the existence check under an else: a mismatching url
\* is not checked for its file.
article_issues_else(dir, fs, article) ==
  IF "url" \in DOMAIN article /\ StartsWith(article.url, KnowledgePrefix)
  THEN IF LastSegment(article.url) # <<article.id, HtmlSuffix>>
       THEN << <<"url mismatch", article.id>> \o UrlText(article.url) >>
       ELSE IF ~PathExists(dir, fs, article.url)
            THEN << <<"file missing">> \o UrlText(article.url) >>
            ELSE <<>>
  ELSE <<>>

\* The issues of one article (lines 126-139).
article_issues(dir, fs, article) ==
  IF "url" \in DOMAIN article /\ StartsWith(article.url, KnowledgePrefix)
  THEN (IF LastSegment(article.url) # <<article.id, HtmlSuffix>>
        THEN << <<"url mismatch", article.id>> \o UrlText(article.url) >>
        ELSE <<>>)
       \o
       (IF ~PathExists(dir, fs, article.url)
        THEN << <<"file missing">> \o UrlText(article.url) >>
        ELSE <<>>)
  ELSE <<>>

\* The issues of one hotContent entry (lines 144-154).
hot_issues(d, hot_item) ==
  IF \E c \in DOMAIN d.categories :
       \E k \in DOMAIN d.categories[c].articles :
         d.categories[c].articles[k].id = hot_item.id
  THEN <<>>
  ELSE << <<"hotContent dangling", hot_item.id>> >>

verify_issues(d, dir, fs) ==
  Concat([c \in DOMAIN d.categories |->
            Concat([k \in DOMAIN d.categories[c].articles |->
                      article_issues(dir, fs, d.categories[c].articles[k])])])
  \o
  (IF "hotContent" \in DOMAIN d.metadata
   THEN Concat([k \in DOMAIN d.metadata.hotContent |->
                  hot_issues(d, d.metadata.hotContent[k])])
   ELSE <<>>)

\* verify_integrity's return value (lines 156-163).
verify_integrity(d, dir, fs) == verify_issues(d, dir, fs) = <<>>

(***************************************************************************)
(* The inputs: data files and directories the scripts are run on.          *)
(***************************************************************************)
OldId == "japan-visa-guide-2024"            \* a key of the mapping
NewId == "visa-article-management-guide"    \* the id the mapping gives it
PlainId == "company-profile"                \* an id the mapping does not know
GhostId == "retired-article"                \* an id no record carries
DraftId == ".draft"                         \* a name that starts with a dot
LastOldId == "life-faq-001"                 \* the key of the table's last entry

ServicesUrl == ServicesPrefix \o << <<"visa", HtmlSuffix>> >>

\* "knowledge/../../site/knowledge/<id>.html": the page of id, by a detour
\* over the directory above the site root.
DetourUrl(id) ==
  << <<"knowledge">>, <<"..">>, <<"..">>, <<SiteRootPath[Len(SiteRootPath)]>>,
     <<"knowledge">>, <<id, HtmlSuffix>> >>

\* "knowledge/": the directory itself.
DirectoryUrl == << <<"knowledge">>, <<>> >>

TitleOf(id) ==
  CASE id = OldId -> "Japan visa guide 2024"
    [] id = NewId -> "Business manager visa"
    [] id = DraftId -> "Draft"
    [] OTHER -> "About the company"

\* An article (or FAQ) record without its optional fields.
Record(id, type) ==
  [id |-> id, title |-> TitleOf(id), excerpt |-> "What to prepare",
   date |-> "2024-01-15", readingTime |-> "5 min", category |-> "visa",
   type |-> type, tags |-> <<"visa", "guide">>]

WithUrl(rec, url) == [f \in DOMAIN rec \cup {"url"} |-> IF f = "url" THEN url ELSE rec[f]]

WithContent(rec, content) ==
  [f \in DOMAIN rec \cup {"content"} |-> IF f = "content" THEN content ELSE rec[f]]

\* The article records the Renamer is run on.
ArticlePool ==
  { Record(OldId, "article"),
    WithUrl(Record(OldId, "article"), KnowledgeUrl(OldId)),
    WithUrl(Record(OldId, "faq"), ServicesUrl),
    WithUrl(Record(NewId, "article"), KnowledgeUrl(NewId)),
    WithUrl(Record(PlainId, "article"), KnowledgeUrl(OldId)),
    WithUrl(Record(PlainId, "article"), DetourUrl(PlainId)),
    WithUrl(Record(PlainId, "article"), DirectoryUrl) }

CategoryKeys == <<"visa", "life">>

\* The category tables over CategoryKeys that hold at most n records of pool.
CategoriesUpTo(pool, n) ==
  { [c \in DOMAIN CategoryKeys |-> [key |-> CategoryKeys[c], articles |-> lists[c]]] :
      lists \in { l \in [DOMAIN CategoryKeys -> SeqsUpTo(pool, n)] :
                    Len(l[1]) + Len(l[2]) <= n } }

BareMetadata == [lastUpdated |-> "2024-01-15"]

WithHot(meta, hot) ==
  [f \in DOMAIN meta \cup {"hotContent"} |-> IF f = "hotContent" THEN hot ELSE meta[f]]

MetadataPool ==
  { BareMetadata,
    WithHot(BareMetadata, << [id |-> PlainId], [id |-> OldId] >>),
    WithHot(BareMetadata, << [id |-> OldId], [id |-> GhostId] >>) }

WithFaqs(d, faqs) ==
  [f \in DOMAIN d \cup {"faqs"} |-> IF f = "faqs" THEN faqs ELSE d[f]]

\* The optional top-level grouping "faqs".
FaqsPool ==
  { << [key |-> "visa",
        articles |-> << WithUrl(Record(OldId, "faq"), KnowledgeUrl(OldId)) >>] >> }

DataFiles(pool, n) ==
  LET plain == { [categories |-> cats, metadata |-> meta] :
                   cats \in CategoriesUpTo(pool, n), meta \in MetadataPool }
  IN plain \cup { WithFaqs(d, faqs) : d \in plain, faqs \in FaqsPool }

\* A hand-written page: its own data-id, twice, a link that names the id
\* outside a data-id attribute, and the data-id of another article.
Page(id) == << DataIdAttr(id), <<"href=", id>>, DataIdAttr(PlainId), DataIdAttr(id) >>

PageStems == {OldId, NewId, PlainId, LastOldId}

Directories == { [s \in stems |-> Page(s)] : stems \in SUBSET PageStems }

EmptyData == [categories |-> <<>>, metadata |-> BareMetadata]

\* The data file as open(..., 'w') leaves it before anything is written:
\* no bytes, which json.load refuses.
EmptyFile == [bytes |-> <<>>]
Parsable(file) == file # EmptyFile

InitDisk(pool, n) ==
  /\ json_file \in DataFiles(pool, n)
  /\ files \in Directories
  /\ knowledge_dir \in (IF DOMAIN files = {} THEN BOOLEAN ELSE {TRUE})
  /\ orig = [json |-> json_file, dir |-> knowledge_dir, files |-> files]

InitScript ==
  /\ data = EmptyData
  /\ pc = "start"
  /\ run = 1
  /\ out = <<>>
  /\ issues = <<>>
  /\ success = FALSE
  /\ entry = 0
  /\ renamed_count = 0
  /\ existing_files = {}
  /\ missing_articles = <<>>
  /\ first = [json |-> EmptyData, files |-> <<>>, issues |-> <<>>]
  /\ interrupted = "no"

Init == InitDisk(ArticlePool, MaxArticles) /\ InitScript

(***************************************************************************)
(* The Renamer's main (lines 165-199), one action per step.                *)
(***************************************************************************)
disk == <<json_file, knowledge_dir, files>>
history == <<orig, first, interrupted>>
others == <<existing_files, missing_articles>>

\* data = load_articles_json()
Load ==
  /\ pc = "start"
  /\ Parsable(json_file)
  /\ data' = json_file
  /\ pc' = "loaded"
  /\ UNCHANGED <<disk, run, out, issues, success, entry, renamed_count, others, history>>

\* data = update_articles_ids(data, id_mapping)
Update ==
  /\ pc = "loaded"
  /\ data' = update_articles_ids(data)
  /\ pc' = "updated"
  /\ UNCHANGED <<disk, run, out, issues, success, entry, renamed_count, others, history>>

\* save_articles_json(data), as one step
Save ==
  /\ pc = "updated"
  /\ json_file' = data
  /\ pc' = "saved"
  /\ UNCHANGED <<knowledge_dir, files, data, run, out, issues, success, entry,
                 renamed_count, others, history>>

\* rename_html_files(id_mapping), as one step
Rename ==
  /\ pc = "saved"
  /\ LET st == rename_html_files(knowledge_dir, files)
     IN /\ files' = st.files
        /\ out' = out \o st.out
        /\ renamed_count' = st.renamed_count
  /\ pc' = "renamed"
  /\ UNCHANGED <<json_file, knowledge_dir, data, run, issues, success, entry, others,
                 history>>

\* success = verify_integrity(data, id_mapping)
Verify ==
  /\ pc = "renamed"
  /\ issues' = verify_issues(data, knowledge_dir, files)
  /\ success' = verify_integrity(data, knowledge_dir, files)
  /\ pc' = "done"
  /\ UNCHANGED <<disk, data, run, out, entry, renamed_count, others, history>>

\* The operator runs the script again on what the first run left.
Rerun ==
  /\ pc = "done"
  /\ run = 1
  /\ first' = [json |-> json_file, files |-> files, issues |-> issues]
  /\ run' = 2
  /\ pc' = "start"
  /\ data' = EmptyData
  /\ out' = <<>>
  /\ issues' = <<>>
  /\ success' = FALSE
  /\ renamed_count' = 0
  /\ UNCHANGED <<disk, entry, others, orig, interrupted>>

Next == Load \/ Update \/ Save \/ Rename \/ Verify \/ Rerun

Spec == Init /\ [][Next]_vars

(***************************************************************************)
(* The Renamer with rename_html_files taken one file operation at a time,  *)
(* and a first run that may be interrupted between any two operations.     *)
(***************************************************************************)
InitCrash == InitDisk(ArticlePool, MaxCrashArticles) /\ InitScript

\* json.load raises on a data file without content: main stops there.
LoadFails ==
  /\ pc = "start"
  /\ ~Parsable(json_file)
  /\ pc' = "failed"
  /\ UNCHANGED <<disk, data, run, out, issues, success, entry, renamed_count, others,
                 history>>

\* Line 50: open('data/articles.json', 'w') empties the data file.
SaveOpen ==
  /\ pc = "updated"
  /\ json_file' = EmptyFile
  /\ pc' = "saving"
  /\ UNCHANGED <<knowledge_dir, files, data, run, out, issues, success, entry,
                 renamed_count, others, history>>

\* The dump left out: the data file stays as the open left it.
SaveWrite_forgotten ==
  /\ pc = "saving"
  /\ pc' = "saved"
  /\ UNCHANGED <<disk, data, run, out, issues, success, entry, renamed_count, others,
                 history>>

\* Line 51: json.dump(data, f) writes the data.
SaveWrite ==
  /\ pc = "saving"
  /\ json_file' = data
  /\ pc' = "saved"
  /\ UNCHANGED <<knowledge_dir, files, data, run, out, issues, success, entry,
                 renamed_count, others, history>>

\* Lines 84-89: the directory test and the counter.
RenameBegin ==
  /\ pc = "saved"
  /\ IF knowledge_dir
     THEN pc' = "renaming" /\ entry' = 1 /\ out' = out
     ELSE pc' = "renamed" /\ entry' = entry /\ out' = Append(out, <<"no directory">>)
  /\ renamed_count' = 0
  /\ UNCHANGED <<disk, data, run, issues, success, others, history>>

\* Lines 95-104: the old file exists and is read; the new file is opened
\* for writing.
RenameOpen ==
  /\ pc = "renaming"
  /\ entry <= Len(id_mapping)
  /\ id_mapping[entry][1] \in DOMAIN files
  /\ files' = OpenNewFile(files, id_mapping[entry][2])
  /\ pc' = "opened"
  /\ UNCHANGED <<json_file, knowledge_dir, data, run, out, issues, success, entry,
                 renamed_count, others, history>>

\* Line 105: the patched content of the old file is written to the new file.
RenameWrite ==
  /\ pc = "opened"
  /\ files' = WriteNewFile(files, id_mapping[entry][1], id_mapping[entry][2])
  /\ pc' = "written"
  /\ UNCHANGED <<json_file, knowledge_dir, data, run, out, issues, success, entry,
                 renamed_count, others, history>>

\* Lines 108-111: the old file is removed.
RenameRemove ==
  /\ pc = "written"
  /\ files' = RemoveOldFile(files, id_mapping[entry][1])
  /\ out' = Append(out, <<"renamed", id_mapping[entry][1], id_mapping[entry][2]>>)
  /\ renamed_count' = renamed_count + 1
  /\ entry' = entry + 1
  /\ pc' = "renaming"
  /\ UNCHANGED <<json_file, knowledge_dir, data, run, issues, success, others, history>>

\* Lines 112-113: the old file does not exist.
RenameSkip ==
  /\ pc = "renaming"
  /\ entry <= Len(id_mapping)
  /\ id_mapping[entry][1] \notin DOMAIN files
  /\ out' = Append(out, <<"file missing", id_mapping[entry][1]>>)
  /\ entry' = entry + 1
  /\ UNCHANGED <<disk, data, pc, run, issues, success, renamed_count, others, history>>

\* Line 115: the loop is over.
RenameEnd ==
  /\ pc = "renaming"
  /\ entry > Len(id_mapping)
  /\ out' = Append(out, <<"renamed total", ToString(renamed_count)>>)
  /\ pc' = "renamed"
  /\ UNCHANGED <<disk, data, run, issues, success, entry, renamed_count, others, history>>

\* The first run is interrupted; the operator runs the script again.
Crash ==
  /\ run = 1
  /\ pc # "done"
  /\ interrupted' = pc
  /\ run' = 2
  /\ pc' = "start"
  /\ data' = EmptyData
  /\ out' = <<>>
  /\ issues' = <<>>
  /\ success' = FALSE
  /\ entry' = 0
  /\ renamed_count' = 0
  /\ UNCHANGED <<disk, others, orig, first>>

NextCrash ==
  \/ Load \/ LoadFails \/ Update \/ SaveOpen \/ SaveWrite
  \/ RenameBegin \/ RenameOpen \/ RenameWrite \/ RenameRemove \/ RenameSkip \/ RenameEnd
  \/ Verify
  \/ Crash

SpecCrash == InitCrash /\ [][NextCrash]_vars

(***************************************************************************)
(* generate_missing_articles.py                                            *)
(***************************************************************************)
\* All records of a list of groups [key, articles], in iteration order.
Flatten(groups) == Concat([g \in DOMAIN groups |-> groups[g].articles])

\* extract_article_ids (lines 10-22): the category ids, then the FAQ ids.
extract_article_ids(d) ==
  LET ids(recs) == [k \in DOMAIN recs |-> recs[k].id]
  IN ids(Flatten(d.categories)) \o
     (IF "faqs" \in DOMAIN d THEN ids(Flatten(d.faqs)) ELSE <<>>)

\* The listing read with the extension kept: no id is ever found in it.
get_existing_html_files_unstripped(dir, fs) == {}

\* get_existing_html_files (lines 26-35): the stems of knowledge/*.html
get_existing_html_files(dir, fs) == IF dir THEN DOMAIN fs ELSE {}

\* The names of the model that start with a dot.
DotNames == {DraftId}

\* glob.glob('knowledge/*.html'), as stems: the files of the directory
\* whose name does not start with a dot.
glob_html(dir, fs) == IF dir THEN { s \in DOMAIN fs : s \notin DotNames } ELSE {}

\* Lines 128-142 of main: the records whose id is not in the listing.
find_missing_articles(d, existing) ==
  LET missing(rec) == rec.id \notin existing
  IN SelectSeq(Flatten(d.categories), missing) \o
     (IF "faqs" \in DOMAIN d THEN SelectSeq(Flatten(d.faqs), missing) ELSE <<>>)

\* generate_tags (lines 105-114)
generate_tags(tags) == [k \in DOMAIN tags |-> <<"span article-tag", tags[k]>>]

\* The document generate_html_for_article writes (lines 39-94).
generate_html_for_article(article_data) ==
  << <<"title", article_data.title>>,
     <<"meta description", article_data.excerpt>>,
     <<"span article-date", article_data.date>>,
     <<"span article-reading-time", article_data.readingTime>>,
     <<"h1 article-title", article_data.title>>,
     <<"div article-excerpt", article_data.excerpt>>,
     <<"div content-wrapper",
       IF "content" \in DOMAIN article_data THEN article_data.content ELSE "">> >>
  \o generate_tags(IF "tags" \in DOMAIN article_data THEN article_data.tags ELSE <<>>)

\* The records the Generator and the Converter are run on.
PagePool ==
  { Record(OldId, "article"),
    WithContent(Record(PlainId, "article"), "<p>Founded in Tokyo.</p>"),
    [Record(PlainId, "article") EXCEPT !.title = "Company profile", !.tags = <<>>],
    Record(DraftId, "article") }

FaqId == "visa-faq-001"

PageFaqsPool ==
  { << [key |-> "visa", articles |-> << Record(FaqId, "faq") >>] >>,
    << [key |-> "visa", articles |-> << Record(FaqId, "faq"), Record(OldId, "faq") >>] >> }

PageDataFiles ==
  LET plain == { [categories |-> cats, metadata |-> BareMetadata] :
                   cats \in CategoriesUpTo(PagePool, MaxArticles) }
  IN plain \cup { WithFaqs(d, faqs) : d \in plain, faqs \in PageFaqsPool }

PageDirectories ==
  { [s \in stems |-> Page(s)] : stems \in SUBSET {OldId, PlainId, FaqId, GhostId, DraftId} }

InitPages ==
  /\ json_file \in PageDataFiles
  /\ files \in PageDirectories
  /\ knowledge_dir \in (IF DOMAIN files = {} THEN BOOLEAN ELSE {TRUE})
  /\ orig = [json |-> json_file, dir |-> knowledge_dir, files |-> files]
  /\ InitScript

\* main up to the loop (lines 117-144 and 151-152).
GenScan ==
  /\ pc = "start"
  /\ data' = json_file
  /\ existing_files' = get_existing_html_files(knowledge_dir, files)
  /\ missing_articles' = find_missing_articles(json_file, existing_files')
  /\ out' = << <<"articles", ToString(Len(extract_article_ids(json_file)))>>,
               <<"existing", ToString(Cardinality(existing_files'))>>,
               <<"missing", ToString(Len(missing_articles'))>> >>
             \o (IF missing_articles' = <<>> THEN << <<"all present">> >> ELSE <<>>)
  /\ pc' = IF missing_articles' = <<>> THEN "done" ELSE "generating"
  /\ UNCHANGED <<disk, run, issues, success, entry, renamed_count, history>>

\* One iteration of the loop of main (lines 149-150): os.makedirs and the
\* write of knowledge/<id>.html.
GenWrite ==
  /\ pc = "generating"
  /\ LET article == Head(missing_articles)
     IN /\ knowledge_dir' = TRUE
        /\ files' = [s \in DOMAIN files \cup {article.id} |->
                       IF s = article.id THEN generate_html_for_article(article)
                       ELSE files[s]]
        /\ out' = Append(out, <<"generated", article.id>>)
  /\ missing_articles' = Tail(missing_articles)
  /\ pc' = IF Tail(missing_articles) = <<>> THEN "done" ELSE "generating"
  /\ UNCHANGED <<json_file, data, run, issues, success, entry, renamed_count,
                 existing_files, history>>

NextGenerator == GenScan \/ GenWrite

SpecGenerator == InitPages /\ [][NextGenerator]_vars

(***************************************************************************)
(* convert_to_markdown_html.py                                             *)
(***************************************************************************)
\* generate_article_tags_html (lines 84-93)
generate_article_tags_html(tags) == [k \in DOMAIN tags |-> <<"span article-tag", tags[k]>>]

\* create_markdown_html_content (lines 10-82)
create_markdown_html_content(article_data) ==
  << <<"title", article_data.title>>,
     <<"meta description", article_data.excerpt>>,
     <<"span article-date", article_data.date>>,
     <<"span article-reading-time", article_data.readingTime>>,
     <<"h1 article-title", article_data.title>>,
     <<"div article-excerpt", article_data.excerpt>>,
     <<"overview", article_data.excerpt>>,
     <<"li date", article_data.date>>,
     <<"li reading time", article_data.readingTime>>,
     <<"li category", article_data.category>>,
     <<"li type", article_data.type>>,
     <<"tags joined">> \o article_data.tags,
     <<"details", article_data.category>>,
     <<"services", article_data.category, article_data.category>> >>
  \o generate_article_tags_html(IF "tags" \in DOMAIN article_data
                                THEN article_data.tags ELSE <<>>)

\* The lookup of main (lines 115-122): the first category record with the id.
find_article(d, article_id) ==
  LET recs == SelectSeq(Flatten(d.categories), LAMBDA rec : rec.id = article_id)
  IN IF recs = <<>> THEN <<>> ELSE <<Head(recs)>>

\* main up to the loop (lines 101-108).
ConvStart ==
  /\ pc = "start"
  /\ data' = json_file
  /\ existing_files' = glob_html(knowledge_dir, files)
  /\ renamed_count' = 0
  /\ pc' = "converting"
  /\ UNCHANGED <<disk, run, out, issues, success, entry, missing_articles, history>>

\* One iteration of the loop over glob's listing (lines 110-135); the
\* listing's order is the file system's.
ConvFile ==
  /\ pc = "converting"
  /\ \E article_id \in existing_files :
       LET found_article == find_article(data, article_id)
       IN /\ IF found_article # <<>>
             THEN /\ files' = [files EXCEPT
                                 ![article_id] = create_markdown_html_content(found_article[1])]
                  /\ out' = Append(out, <<"converted", article_id>>)
                  /\ renamed_count' = renamed_count + 1
             ELSE /\ files' = files
                  /\ out' = Append(out, <<"no article data", article_id>>)
                  /\ renamed_count' = renamed_count
          /\ existing_files' = existing_files \ {article_id}
  /\ UNCHANGED <<json_file, knowledge_dir, data, pc, run, issues, success, entry,
                 missing_articles, history>>

\* Line 137: the loop is over.
ConvEnd ==
  /\ pc = "converting"
  /\ existing_files = {}
  /\ out' = Append(out, <<"converted total", ToString(renamed_count)>>)
  /\ pc' = "done"
  /\ UNCHANGED <<disk, data, run, issues, success, entry, renamed_count, others, history>>

NextConverter == ConvStart \/ ConvFile \/ ConvEnd

SpecConverter == InitPages /\ [][NextConverter]_vars

(***************************************************************************)
(* Properties of the Renamer.                                              *)
(***************************************************************************)
\* The positions <<c, k>> of the article records of a data file.
PositionsIn(groups) ==
  UNION { { <<g, k>> : k \in DOMAIN groups[g].articles } : g \in DOMAIN groups }

Positions(d) == PositionsIn(d.categories)

ArticleAt(d, p) == d.categories[p[1]].articles[p[2]]

HotItems(d) == IF "hotContent" \in DOMAIN d.metadata THEN d.metadata.hotContent ELSE <<>>

HasUrlUnder(rec, prefix) ==
  /\ "url" \in DOMAIN rec
  /\ Len(rec.url) > Len(prefix)
  /\ \A k \in DOMAIN prefix : rec.url[k] = prefix[k]

\* The first run has rewritten the structure it loaded from orig.json.
Rewritten == run = 1 /\ pc \in {"updated", "saved", "renamed", "done"}

\* C1: after update_articles_ids, every category record whose id was a key
\* of the mapping carries mapping[old_id], with a url under knowledge/
\* rewritten to knowledge/<mapping[old_id]>.html and a url under ../services/
\* unchanged; a record whose id is no key keeps its id and url; every
\* hotContent entry whose id was a key carries mapping[old_id].
C1_RewriteStep ==
  Rewritten =>
    /\ Positions(data) = Positions(orig.json)
    /\ \A p \in Positions(orig.json) :
         LET old == ArticleAt(orig.json, p)
             new == ArticleAt(data, p)
         IN IF InMapping(old.id)
            THEN /\ new.id = MappingAt(old.id)
                 /\ HasUrlUnder(old, KnowledgePrefix) =>
                      new.url = << <<"knowledge">>, <<MappingAt(old.id), ".html">> >>
                 /\ HasUrlUnder(old, ServicesPrefix) => new.url = old.url
            ELSE /\ new.id = old.id
                 /\ ("url" \in DOMAIN new) = ("url" \in DOMAIN old)
                 /\ "url" \in DOMAIN old => new.url = old.url
    /\ DOMAIN HotItems(data) = DOMAIN HotItems(orig.json)
    /\ \A k \in DOMAIN HotItems(orig.json) :
         InMapping(HotItems(orig.json)[k].id) =>
           HotItems(data)[k].id = MappingAt(HotItems(orig.json)[k].id)

\* A data file with a mapped article under knowledge/, a mapped record
\* under ../services/ and a mapped hotContent entry has been rewritten.
C1_Witness ==
  /\ run = 1
  /\ pc = "updated"
  /\ \E p \in Positions(orig.json) :
       /\ ArticleAt(orig.json, p).id = OldId
       /\ HasUrlUnder(ArticleAt(orig.json, p), KnowledgePrefix)
       /\ ArticleAt(data, p).url = KnowledgeUrl(NewId)
  /\ \E p \in Positions(orig.json) :
       /\ ArticleAt(orig.json, p).id = OldId
       /\ HasUrlUnder(ArticleAt(orig.json, p), ServicesPrefix)
       /\ ArticleAt(data, p).id = NewId
  /\ \E k \in DOMAIN HotItems(orig.json) :
       HotItems(orig.json)[k].id = OldId /\ HotItems(data)[k].id = NewId

\* C2: after the Renamer has run, every FAQ record under the top-level
\* grouping "faqs" whose id was a key of the mapping carries
\* mapping[old_id], and its url under knowledge/ names the new id.
C2_FaqsMigrated ==
  (run = 1 /\ pc = "done" /\ "faqs" \in DOMAIN orig.json) =>
    /\ "faqs" \in DOMAIN json_file
    /\ \A g \in DOMAIN orig.json.faqs :
         \A k \in DOMAIN orig.json.faqs[g].articles :
           LET old == orig.json.faqs[g].articles[k]
               new == json_file.faqs[g].articles[k]
           IN InMapping(old.id) =>
                /\ new.id = MappingAt(old.id)
                /\ HasUrlUnder(old, KnowledgePrefix) =>
                     new.url = KnowledgeUrl(MappingAt(old.id))

\* The rename step of the first run is over.
Renamed == run = 1 /\ pc \in {"renamed", "done"}

\* The text of content with data-id="<old_id>" replaced by data-id="<new_id>".
IsPatched(patched, content, old_id, new_id) ==
  /\ Len(patched) = Len(content)
  /\ \A k \in DOMAIN content :
       patched[k] = IF content[k] = <<"data-id=", old_id>>
                    THEN <<"data-id=", new_id>>
                    ELSE content[k]

\* C3: after rename_html_files, for every mapping entry the old file does
\* not exist; if it existed before, the new file holds its content with the
\* data-id attribute patched; if it did not, the entry is skipped with a
\* warning, its new file is neither created nor modified, and the entries
\* after it are processed all the same.
C3_RenameStep ==
  Renamed =>
    \A k \in DOMAIN id_mapping :
      LET old_id == id_mapping[k][1]
          new_id == id_mapping[k][2]
      IN /\ old_id \notin DOMAIN files
         /\ old_id \in DOMAIN orig.files =>
              /\ new_id \in DOMAIN files
              /\ IsPatched(files[new_id], orig.files[old_id], old_id, new_id)
         /\ old_id \notin DOMAIN orig.files =>
              /\ (new_id \in DOMAIN files) = (new_id \in DOMAIN orig.files)
              /\ new_id \in DOMAIN files => files[new_id] = orig.files[new_id]
              /\ knowledge_dir => <<"file missing", old_id>> \in Range(out)
              /\ ~knowledge_dir => <<"no directory">> \in Range(out)

\* Two old files have been renamed and patched, one onto a file that was
\* there, each after entries that were skipped with a warning.
C3_Witness ==
  /\ run = 1
  /\ pc = "renamed"
  /\ OldId \in DOMAIN orig.files
  /\ NewId \in DOMAIN orig.files
  /\ NewId \in DOMAIN files
  /\ files[NewId] # orig.files[NewId]
  /\ files[NewId] # orig.files[OldId]
  /\ <<"file missing", "business-faq-002">> \in Range(out)
  /\ <<"renamed", OldId, NewId>> \in Range(out)
  /\ <<"file missing", "japan-housing-guide">> \in Range(out)
  /\ <<"renamed", LastOldId, "life-faq-banking-account">> \in Range(out)

\* The ids carried by article records, FAQ records and hotContent entries.
FaqGroups(d) == IF "faqs" \in DOMAIN d THEN d.faqs ELSE <<>>

FaqPositions(d) == PositionsIn(FaqGroups(d))

FaqAt(d, p) == FaqGroups(d)[p[1]].articles[p[2]]

CarriedIds(d) ==
  { ArticleAt(d, p).id : p \in Positions(d) } \cup
  { FaqAt(d, p).id : p \in FaqPositions(d) } \cup
  { HotItems(d)[k].id : k \in DOMAIN HotItems(d) }

RecordsWithId(d, id) ==
  Cardinality({ p \in Positions(d) : ArticleAt(d, p).id = id }) +
  Cardinality({ p \in FaqPositions(d) : FaqAt(d, p).id = id })

Consistent(d, dir, fs) ==
  \A id \in CarriedIds(d) : RecordsWithId(d, id) = 1 /\ dir /\ id \in DOMAIN fs

\* C4: if before the Renamer runs every id carried by an article record, a
\* FAQ record or a hotContent entry resolves to exactly one record and to an
\* existing file knowledge/<id>.html, the same is true after it has run.
C4_ReferentialConsistency ==
  (run = 1 /\ pc = "done" /\ Consistent(orig.json, orig.dir, orig.files)) =>
    Consistent(json_file, knowledge_dir, files)

\* The first run has saved the rewritten structure.
Saved == run = 1 /\ pc \in {"saved", "renamed", "done"}

\* C5: the data file the Renamer saves has the same category keys in the
\* same order, each with the same number of records in the same positions,
\* and each record differs from the one before at most in id and url.
C5_MembershipAndOrder ==
  Saved =>
    /\ DOMAIN json_file.categories = DOMAIN orig.json.categories
    /\ \A c \in DOMAIN orig.json.categories :
         /\ json_file.categories[c].key = orig.json.categories[c].key
         /\ Len(json_file.categories[c].articles) = Len(orig.json.categories[c].articles)
         /\ \A k \in DOMAIN orig.json.categories[c].articles :
              LET old == orig.json.categories[c].articles[k]
                  new == json_file.categories[c].articles[k]
              IN /\ DOMAIN new = DOMAIN old
                 /\ \A f \in DOMAIN old \ {"id", "url"} : new[f] = old[f]

\* A category of two different records, one of them renamed, has been saved.
C5_Witness ==
  /\ run = 1
  /\ pc = "saved"
  /\ \E c \in DOMAIN orig.json.categories :
       /\ Len(orig.json.categories[c].articles) = 2
       /\ orig.json.categories[c].articles[1].title # orig.json.categories[c].articles[2].title
       /\ json_file.categories[c].articles[2].id # orig.json.categories[c].articles[2].id
       /\ json_file.categories[c].articles[1].id = orig.json.categories[c].articles[1].id

\* C6: a second run on what a first complete run left changes neither the
\* data file nor the HTML files, and its verification reports no issue the
\* first run did not report.
C6_Idempotent ==
  (run = 2 /\ interrupted = "no") =>
    /\ json_file = first.json
    /\ files = first.files
    /\ pc = "done" => Range(issues) \subseteq Range(first.issues)

\* A second run has completed after a first run that changed the data file
\* and the files and reported issues.
C6_Witness ==
  /\ run = 2
  /\ interrupted = "no"
  /\ pc = "done"
  /\ first.json # orig.json
  /\ DOMAIN first.files # DOMAIN orig.files
  /\ issues # <<>>

\* How often v occurs in the list s.
Occurrences(s, v) == Cardinality({ k \in DOMAIN s : s[k] = v })

UrlMismatch(rec) ==
  /\ HasUrlUnder(rec, KnowledgePrefix)
  /\ rec.url[Len(rec.url)] # <<rec.id, ".html">>

FileAbsent(rec, dir, fs) ==
  /\ HasUrlUnder(rec, KnowledgePrefix)
  /\ ~PathExists(dir, fs, rec.url)

Dangling(d, hot_item) == \A p \in Positions(d) : ArticleAt(d, p).id # hot_item.id

\* How often verification has to report v on data d and directory (dir, fs).
Expected(d, dir, fs, v) ==
  Cardinality({ p \in Positions(d) :
                  /\ UrlMismatch(ArticleAt(d, p))
                  /\ v = <<"url mismatch", ArticleAt(d, p).id>> \o UrlText(ArticleAt(d, p).url) }) +
  Cardinality({ p \in Positions(d) :
                  /\ FileAbsent(ArticleAt(d, p), dir, fs)
                  /\ v = <<"file missing">> \o UrlText(ArticleAt(d, p).url) }) +
  Cardinality({ k \in DOMAIN HotItems(d) :
                  /\ Dangling(d, HotItems(d)[k])
                  /\ v = <<"hotContent dangling", HotItems(d)[k].id>> })

ExpectedIssues(d, dir, fs) ==
  { <<"url mismatch", ArticleAt(d, p).id>> \o UrlText(ArticleAt(d, p).url) :
      p \in { q \in Positions(d) : "url" \in DOMAIN ArticleAt(d, q) } } \cup
  { <<"file missing">> \o UrlText(ArticleAt(d, p).url) :
      p \in { q \in Positions(d) : "url" \in DOMAIN ArticleAt(d, q) } } \cup
  { <<"hotContent dangling", HotItems(d)[k].id>> : k \in DOMAIN HotItems(d) }

\* C8: verify_integrity changes neither the data nor the files; it reports
\* one issue per record with a url under knowledge/ whose filename is not
\* <id>.html, one per such record whose file does not exist, one per
\* hotContent entry whose id no category record carries, and nothing else;
\* it returns success exactly when the list is empty.
C8_Verification ==
  [][(pc = "renamed" /\ pc' = "done") =>
       /\ data' = data
       /\ json_file' = json_file
       /\ files' = files
       /\ knowledge_dir' = knowledge_dir
       /\ \A v \in Range(issues') \cup ExpectedIssues(data, knowledge_dir, files) :
            Occurrences(issues', v) = Expected(data, knowledge_dir, files, v)
       /\ success' = (Len(issues') = 0)]_vars

\* Verification has reported a mismatching url, its missing file and a
\* dangling hotContent entry in one list.
C8_Witness ==
  /\ pc = "done"
  /\ ~success
  /\ \E i, j, k \in DOMAIN issues :
       /\ issues[i][1] = "url mismatch"
       /\ issues[j][1] = "file missing"
       /\ issues[j] = <<"file missing">> \o SubSeq(issues[i], 3, Len(issues[i]))
       /\ issues[k] = <<"hotContent dangling", GhostId>>
  /\ knowledge_dir
  /\ <<"url mismatch", PlainId>> \o UrlText(DirectoryUrl) \in Range(issues)
  /\ <<"file missing">> \o UrlText(DirectoryUrl) \notin Range(issues)

\* The positions of a run at which the data file has been saved.
AfterSave == {"saved", "renaming", "opened", "written", "renamed"}

\* C7: in a run the data file is saved before any HTML file is renamed (no
\* HTML file has changed while the first run has not saved, and once a run
\* has saved the data file holds the rewritten data), and a first run
\* interrupted anywhere after the save (also between writing a new file and
\* removing its old file), followed by a complete run, leaves the data file
\* and the HTML files an uninterrupted run leaves.
C7_Recoverable ==
  /\ (run = 1 /\ pc \notin AfterSave \cup {"done"}) => files = orig.files
  /\ pc \in AfterSave \cup {"done"} => json_file = update_articles_ids(orig.json)
  /\ (pc = "done" /\ interrupted \in {"no"} \cup AfterSave) =>
       /\ json_file = update_articles_ids(orig.json)
       /\ files = rename_html_files(orig.dir, orig.files).files

\* The re-run has completed after a first run interrupted between the write
\* of a new file and the removal of its old file.
C7_Witness ==
  /\ run = 2
  /\ interrupted = "written"
  /\ pc = "done"
  /\ OldId \in DOMAIN orig.files
  /\ NewId \notin DOMAIN orig.files
  /\ NewId \in DOMAIN files
  /\ OldId \notin DOMAIN files
  /\ json_file # orig.json

(***************************************************************************)
(* Properties of the Generator and the Converter.                          *)
(***************************************************************************)
\* All article ids together with all FAQ ids.
ExpectedIds(d) ==
  { ArticleAt(d, p).id : p \in Positions(d) } \cup
  { FaqAt(d, p).id : p \in FaqPositions(d) }

\* C9: the Generator leaves every file that existed before it ran with its
\* content, creates files only for expected ids (article ids and FAQ ids),
\* and when it is done knowledge/<id>.html exists for every expected id.
C9_GeneratorFrame ==
  /\ \A s \in DOMAIN orig.files : s \in DOMAIN files /\ files[s] = orig.files[s]
  /\ (DOMAIN files \ DOMAIN orig.files) \subseteq ExpectedIds(orig.json)
  /\ pc = "done" =>
       \A id \in ExpectedIds(orig.json) : knowledge_dir /\ id \in DOMAIN files

\* The Generator is done on a directory that held the page of one expected
\* id and a page no record owns, and lacked the page of a FAQ id.
C9_Witness ==
  /\ pc = "done"
  /\ {OldId, FaqId} \subseteq ExpectedIds(orig.json)
  /\ {OldId, GhostId} \subseteq DOMAIN orig.files
  /\ FaqId \notin DOMAIN orig.files
  /\ FaqId \in DOMAIN files
  /\ <<"generated", FaqId>> \in Range(out)

\* The first category record that carries id, in iteration order.
FirstWithId(d, id) ==
  LET with == { p \in Positions(d) : ArticleAt(d, p).id = id }
  IN ArticleAt(d, CHOOSE p \in with :
                    \A q \in with : p[1] < q[1] \/ (p[1] = q[1] /\ p[2] <= q[2]))

\* C10: the Converter creates and deletes no file; when it is done, every
\* file whose stem is the id of a record of some category holds the template
\* filled from that record (the first one with the id), with the record's
\* title in the title positions and nothing of its previous content; every
\* other file is reported and keeps its content.
C10_ConverterContract ==
  /\ DOMAIN files = DOMAIN orig.files
  /\ knowledge_dir = orig.dir
  /\ pc = "done" =>
       \A s \in DOMAIN orig.files :
         IF \E p \in Positions(orig.json) : ArticleAt(orig.json, p).id = s
         THEN LET rec == FirstWithId(orig.json, s)
              IN /\ files[s][1] = <<"title", rec.title>>
                 /\ files[s][5] = <<"h1 article-title", rec.title>>
                 /\ { <<"meta description", rec.excerpt>>,
                      <<"span article-date", rec.date>>,
                      <<"span article-reading-time", rec.readingTime>>,
                      <<"li category", rec.category>>,
                      <<"li type", rec.type>>,
                      <<"tags joined">> \o rec.tags } \subseteq Range(files[s])
                 /\ \A k \in DOMAIN rec.tags :
                      <<"span article-tag", rec.tags[k]>> \in Range(files[s])
                 /\ Range(files[s]) \cap Range(orig.files[s]) = {}
                 /\ <<"converted", s>> \in Range(out)
         ELSE /\ files[s] = orig.files[s]
              /\ <<"no article data", s>> \in Range(out)

====
